---- MODULE Spec2Model ----
(***************************************************************************)
(* SimValue (simuvex/s_value.py): concretization of one expression against *)
(* an incremental solver.  A constraint over the expression is represented *)
(* by the set of values of the expression that satisfy it, and the solver  *)
(* is an assertion stack whose frames hold the conjunction of what was     *)
(* asserted in them.  Every method of SimValue is a frame on the call      *)
(* stack cs; a step runs a method up to its next call, return, loop        *)
(* iteration or pop.                                                       *)
(***************************************************************************)
EXTENDS Integers, Sequences, FiniteSets, TLC

\* ------------------------------------------------------------------ bounds
Size == 2          \* bit width of the expression (expr.size())
MaxN == 2          \* largest n handed to any_n / exactly_n
MaxOuter == 1      \* scopes the caller already holds open on a shared solver
MaxSol == 2        \* most values the path constraints leave to a constrained expr

\* --------------------------------------------------------------- constants
max_for_size == 2 ^ Size - 1
min_for_size == 0
Values == min_for_size..max_for_size
\* min/max/iter default hi = 2**64; every hi above max_for_size is clamped
\* to max_for_size, so the default is represented by 2 ^ Size.
DefaultHi == 2 ^ Size
DefaultLo == 0
\* arguments lo and hi of min, max and iter: every value of the width, one lo
\* below min_for_size and one hi above max_for_size
LoArgs == {min_for_size - 1} \cup Values
HiArgs == Values \cup {max_for_size + 1}

\* ------------------------------------------------- symexec expression builders
\* A bit-vector constant wraps to the width of the expression.
Wrap(v) == v % (2 ^ Size)
Eq(v) == {x \in Values : x = Wrap(v)}
Ne(v) == {x \in Values : x # Wrap(v)}
UGE(v) == {x \in Values : x >= Wrap(v)}
ULT(v) == {x \in Values : x < Wrap(v)}
UGT(v) == {x \in Values : x > Wrap(v)}
ULE(v) == {x \in Values : x <= Wrap(v)}

\* --------------------------------------------------------------- se.Solver
Depth(s) == Len(s) - 1
Conj(cons) == {x \in Values : \A c \in cons : x \in c}
Push(s) == Append(s, Values)
Pop(s) == SubSeq(s, 1, Len(s) - 1)
Add(s, cons) == IF Len(s) = 0 THEN s ELSE [s EXCEPT ![Len(s)] = @ \cap Conj(cons)]
Solutions(s) == {x \in Values : \A i \in DOMAIN s : x \in s[i]}
Check(s) == Solutions(s) # {}

\* state.add_constraints(c): the permanent add of the owning state, an add
\* on the state's solver at the depth the caller holds.
add_constraints(s, c) == Add(s, {c})

\* ------------------------------------------------------------------- state
VARIABLES
  expr,     \* [sym, val]: symbolic variable, or the constant val
  state,    \* [exists, strict]: the owning state and its CONCRETE_STRICT option
  solver,   \* the assertion stack (private, or state.solver)
  cs,       \* call stack of SimValue methods, innermost last
  ret,      \* value returned (or exception raised) by the last finished call
  out,      \* values yielded so far by the running iter
  call,     \* the outermost call and its arguments
  pre,      \* the solver when the outermost call started
  checks,   \* solver.check() calls issued by the outermost call
  learned,  \* constraints the outermost call handed to state.add_constraints
  parked    \* the thread that is not running, when two share state.solver

vars == <<expr, state, solver, cs, ret, out, call, pre, checks, learned, parked>>

NoExtra == [given |-> FALSE, cons |-> {}]
Extra(cons) == [given |-> TRUE, cons |-> cons]
ExtraChoices ==
  {NoExtra, Extra({})} \cup {Extra({Eq(v)}) : v \in Values}
    \cup {Extra({Ne(v)}) : v \in {min_for_size, max_for_size}}

NoRet == [kind |-> "none", v |-> 0, l |-> <<>>, b |-> FALSE, e |-> "", req |-> 0, found |-> 0]
RetInt(v) == [NoRet EXCEPT !.kind = "int", !.v = v]
RetList(l) == [NoRet EXCEPT !.kind = "list", !.l = l]
RetBool(b) == [NoRet EXCEPT !.kind = "bool", !.b = b]
RetStop == [NoRet EXCEPT !.kind = "stop"]
\* ConcretizingException, told apart by its message
NoSolutions == [NoRet EXCEPT !.kind = "exc", !.e = "NoSolutions"]
InsufficientSolutions(req, found) ==
  [NoRet EXCEPT !.kind = "exc", !.e = "InsufficientSolutions", !.req = req, !.found = found]
StrictModeViolation == [NoRet EXCEPT !.kind = "exc", !.e = "StrictModeViolation"]

Frame(fn) ==
  [fn |-> fn, pc |-> "start", n |-> 0, ec |-> NoExtra, results |-> <<>>,
   lo |-> 0, hi |-> 0, middle |-> 0, numpop |-> 0, i |-> 0, v |-> 0,
   s |-> FALSE, entry |-> Depth(solver)]

NoCall == [op |-> "none", n |-> 0, ec |-> NoExtra, lo |-> 0, hi |-> 0, sol |-> 0]

\* what belongs to one thread: its call stack and the locals of its caller
NoThread ==
  [cs |-> <<>>, ret |-> NoRet, out |-> <<>>, call |-> NoCall, pre |-> <<>>,
   checks |-> 0, learned |-> <<>>]

is_symbolic == expr.sym
concretize_constant == expr.val
Strict == state.exists /\ state.strict

\* The values the constraints given at construction leave to the expression:
\* none at all, all of them, or up to MaxSol chosen ones.  A constant
\* expression mentions no variable, so its solver is satisfiable or not.
\* A private solver is new (depth 0); a shared one holds the constraints in
\* the innermost of the scopes its owner has open.
PathSets == {S \in SUBSET Values : Cardinality(S) <= MaxSol} \cup {Values}

Init ==
  /\ expr \in {[sym |-> TRUE, val |-> 0]} \cup {[sym |-> FALSE, val |-> c] : c \in Values}
  /\ state \in {[exists |-> FALSE, strict |-> FALSE],
                [exists |-> TRUE, strict |-> FALSE],
                [exists |-> TRUE, strict |-> TRUE]}
  /\ \E S \in PathSets, d \in {0, MaxOuter} :
       /\ state.exists <=> d = MaxOuter
       /\ expr.sym \/ S \in {{}, Values}
       /\ solver = [k \in 1..(d + 1) |-> IF k = d + 1 THEN S ELSE Values]
  /\ cs = <<>>
  /\ ret = NoRet
  /\ out = <<>>
  /\ call = NoCall
  /\ pre = solver
  /\ checks = 0
  /\ learned = <<>>
  /\ parked = NoThread

\* ------------------------------------------------------------ call plumbing
Top == cs[Len(cs)]
In(fn, pc) == cs # <<>> /\ Top.fn = fn /\ Top.pc = pc
SetTop(f) == [cs EXCEPT ![Len(cs)] = f]
Goto(f) == cs' = SetTop(f) /\ ret' = ret
Return(r) == cs' = SubSeq(cs, 1, Len(cs) - 1) /\ ret' = r
\* no method catches: an exception unwinds every frame
Raise(r) == cs' = <<>> /\ ret' = r
Invoke(retpc, g) == cs' = Append(SetTop([Top EXCEPT !.pc = retpc]), g) /\ ret' = ret
Config == <<expr, state, parked>>
Learn(c) == solver' = add_constraints(solver, c) /\ learned' = Append(learned, c)
NoLearn == solver' = solver /\ learned' = learned
Idle == cs = <<>> /\ call.op = "none"
Done == cs = <<>> /\ call.op # "none"
Begin(c, f) ==
  /\ Idle
  /\ cs' = <<f>>
  /\ call' = c
  /\ pre' = solver
  /\ ret' = NoRet
  /\ out' = <<>>
  /\ checks' = 0
  /\ learned' = <<>>
  /\ UNCHANGED <<Config, solver>>

\* The caller takes the result of the finished call; the SimValue is ready
\* for its next operation.
Finish ==
  /\ Done
  /\ call' = NoCall
  /\ ret' = NoRet
  /\ out' = <<>>
  /\ pre' = solver
  /\ checks' = 0
  /\ learned' = <<>>
  /\ UNCHANGED <<Config, solver, cs>>

\* ------------------------------------------------------------------- any_n
\* as any_n_start, without the CONCRETE_STRICT test
any_n_start_ignores_strict ==
  /\ In("any_n", "start")
  /\ IF ~is_symbolic
       THEN Return(RetList(<<concretize_constant>>)) /\ solver' = solver
       ELSE IF FALSE
         THEN Raise(StrictModeViolation) /\ solver' = solver
         ELSE /\ Goto([Top EXCEPT !.pc = "loop", !.results = <<>>, !.i = 0])
              /\ solver' = IF Top.ec.given
                             THEN Add(Push(solver), Top.ec.cons)
                             ELSE Push(solver)
  /\ UNCHANGED <<Config, out, call, pre, checks, learned>>

\* as any_n_start, but the extra constraints are asserted before the push
any_n_start_adds_before_push ==
  /\ In("any_n", "start")
  /\ IF ~is_symbolic
       THEN Return(RetList(<<concretize_constant>>)) /\ solver' = solver
       ELSE IF Strict
         THEN Raise(StrictModeViolation) /\ solver' = solver
         ELSE /\ Goto([Top EXCEPT !.pc = "loop", !.results = <<>>, !.i = 0])
              /\ solver' = IF Top.ec.given
                             THEN Push(Add(solver, Top.ec.cons))
                             ELSE Push(solver)
  /\ UNCHANGED <<Config, out, call, pre, checks, learned>>

\* not symbolic: the constant; strict: refuse; else open the scope and
\* assert the extra constraints in it
any_n_start ==
  /\ In("any_n", "start")
  /\ IF ~is_symbolic
       THEN Return(RetList(<<concretize_constant>>)) /\ solver' = solver
       ELSE IF Strict
         THEN Raise(StrictModeViolation) /\ solver' = solver
         ELSE /\ Goto([Top EXCEPT !.pc = "loop", !.results = <<>>, !.i = 0])
              /\ solver' = IF Top.ec.given
                             THEN Add(Push(solver), Top.ec.cons)
                             ELSE Push(solver)
  /\ UNCHANGED <<Config, out, call, pre, checks, learned>>

\* as any_n_loop, but the witness is not blocked
any_n_loop_without_blocking ==
  /\ In("any_n", "loop")
  /\ IF Top.i < Top.n
       THEN /\ checks' = checks + 1
            /\ IF Check(solver)
                 THEN \E v \in Solutions(solver) :
                        /\ solver' = solver
                        /\ Goto([Top EXCEPT !.i = @ + 1, !.v = v,
                                            !.results = Append(@, v)])
                 ELSE /\ solver' = solver
                      /\ Goto([Top EXCEPT !.pc = "pop"])
       ELSE /\ checks' = checks
            /\ solver' = solver
            /\ Goto([Top EXCEPT !.pc = "pop"])
  /\ UNCHANGED <<Config, out, call, pre, learned>>

\* as any_n_loop, but the witness is asserted instead of blocked
any_n_loop_asserts_witness ==
  /\ In("any_n", "loop")
  /\ IF Top.i < Top.n
       THEN /\ checks' = checks + 1
            /\ IF Check(solver)
                 THEN \E v \in Solutions(solver) :
                        /\ solver' = Add(solver, {Eq(v)})
                        /\ Goto([Top EXCEPT !.i = @ + 1, !.v = v,
                                            !.results = Append(@, v)])
                 ELSE /\ solver' = solver
                      /\ Goto([Top EXCEPT !.pc = "pop"])
       ELSE /\ checks' = checks
            /\ solver' = solver
            /\ Goto([Top EXCEPT !.pc = "pop"])
  /\ UNCHANGED <<Config, out, call, pre, learned>>

\* as any_n_loop, but an unsat check does not end the loop
any_n_loop_continues_on_unsat ==
  /\ In("any_n", "loop")
  /\ IF Top.i < Top.n
       THEN /\ checks' = checks + 1
            /\ IF Check(solver)
                 THEN \E v \in Solutions(solver) :
                        /\ solver' = Add(solver, {Ne(v)})
                        /\ Goto([Top EXCEPT !.i = @ + 1, !.v = v,
                                            !.results = Append(@, v)])
                 ELSE /\ solver' = solver
                      /\ Goto([Top EXCEPT !.i = @ + 1])
       ELSE /\ checks' = checks
            /\ solver' = solver
            /\ Goto([Top EXCEPT !.pc = "pop"])
  /\ UNCHANGED <<Config, out, call, pre, learned>>

\* one iteration of for _ in range(n): check, and on sat eval a witness,
\* append it and block it
any_n_loop ==
  /\ In("any_n", "loop")
  /\ IF Top.i < Top.n
       THEN /\ checks' = checks + 1
            /\ IF Check(solver)
                 THEN \E v \in Solutions(solver) :
                        /\ solver' = Add(solver, {Ne(v)})
                        /\ Goto([Top EXCEPT !.i = @ + 1, !.v = v,
                                            !.results = Append(@, v)])
                 ELSE /\ solver' = solver
                      /\ Goto([Top EXCEPT !.pc = "pop"])
       ELSE /\ checks' = checks
            /\ solver' = solver
            /\ Goto([Top EXCEPT !.pc = "pop"])
  /\ UNCHANGED <<Config, out, call, pre, learned>>

any_n_pop ==
  /\ In("any_n", "pop")
  /\ solver' = Pop(solver)
  /\ Return(RetList(Top.results))
  /\ UNCHANGED <<Config, out, call, pre, checks, learned>>

CallAnyN ==
  \E n \in 1..MaxN, ec \in ExtraChoices :
    Begin([NoCall EXCEPT !.op = "any_n", !.n = n, !.ec = ec],
          [Frame("any_n") EXCEPT !.n = n, !.ec = ec])

\* --------------------------------------------------------------- is_unique
is_unique_start ==
  /\ In("is_unique", "start")
  /\ IF ~is_symbolic
       THEN Return(RetBool(TRUE))
       ELSE Invoke("answers", [Frame("any_n") EXCEPT !.n = 2, !.ec = Top.ec])
  /\ UNCHANGED <<Config, solver, out, call, pre, checks, learned>>

\* as is_unique_answers, but learns also when extra constraints were given
is_unique_answers_learns_under_extra ==
  /\ In("is_unique", "answers")
  /\ IF Len(ret.l) # 1
       THEN Return(RetBool(FALSE)) /\ NoLearn
       ELSE /\ Return(RetBool(TRUE))
            /\ IF state.exists
                 THEN Learn(Eq(ret.l[1]))
                 ELSE NoLearn
  /\ UNCHANGED <<Config, out, call, pre, checks>>

is_unique_answers ==
  /\ In("is_unique", "answers")
  /\ IF Len(ret.l) # 1
       THEN Return(RetBool(FALSE)) /\ NoLearn
       ELSE /\ Return(RetBool(TRUE))
            /\ IF state.exists /\ ~Top.ec.given
                 THEN Learn(Eq(ret.l[1]))
                 ELSE NoLearn
  /\ UNCHANGED <<Config, out, call, pre, checks>>

CallIsUnique ==
  \E ec \in ExtraChoices :
    Begin([NoCall EXCEPT !.op = "is_unique", !.ec = ec],
          [Frame("is_unique") EXCEPT !.ec = ec])

\* ------------------------------------------------------------- satisfiable
\* satisfiable() is one solver.check(); inside the other methods it is the
\* check of the step that calls it.
satisfiable ==
  /\ In("satisfiable", "start")
  /\ checks' = checks + 1
  /\ Return(RetBool(Check(solver)))
  /\ UNCHANGED <<Config, solver, out, call, pre, learned>>

CallSatisfiable ==
  Begin([NoCall EXCEPT !.op = "satisfiable"], Frame("satisfiable"))

\* --------------------------------------------------------------------- any
any_start ==
  /\ In("any", "start")
  /\ Invoke("got", [Frame("exactly_n") EXCEPT !.n = 1, !.ec = Top.ec])
  /\ UNCHANGED <<Config, solver, out, call, pre, checks, learned>>

any_got ==
  /\ In("any", "got")
  /\ Return(RetInt(ret.l[1]))
  /\ UNCHANGED <<Config, solver, out, call, pre, checks, learned>>

CallAny ==
  \E ec \in ExtraChoices :
    Begin([NoCall EXCEPT !.op = "any", !.ec = ec], [Frame("any") EXCEPT !.ec = ec])

\* --------------------------------------------------------------- exactly_n
Prefix(l, n) == SubSeq(l, 1, IF Len(l) < n THEN Len(l) ELSE n)

exactly_n_start ==
  /\ In("exactly_n", "start")
  /\ Invoke("results", [Frame("any_n") EXCEPT !.n = Top.n + 1, !.ec = Top.ec])
  /\ UNCHANGED <<Config, solver, out, call, pre, checks, learned>>

\* as exactly_n_results, without the test for an empty result
exactly_n_results_no_empty_test ==
  /\ In("exactly_n", "results")
  /\ IF FALSE
       THEN Raise(NoSolutions) /\ NoLearn
       ELSE IF Len(Prefix(ret.l, Top.n)) # Top.n
         THEN Raise(InsufficientSolutions(Top.n, Len(ret.l))) /\ NoLearn
         ELSE /\ Return(RetList(Prefix(ret.l, Top.n)))
              /\ IF is_symbolic /\ Top.n = 1 /\ Len(ret.l) = 1 /\ state.exists
                   THEN Learn(Eq(ret.l[1]))
                   ELSE NoLearn
  /\ UNCHANGED <<Config, out, call, pre, checks>>

\* as exactly_n_results, but a single witness is learned before the test of
\* the number of results
exactly_n_results_learns_before_length_test ==
  /\ In("exactly_n", "results")
  /\ IF Len(ret.l) = 0
       THEN Raise(NoSolutions) /\ NoLearn
       ELSE /\ IF is_symbolic /\ Len(ret.l) = 1 /\ state.exists
                 THEN Learn(Eq(ret.l[1]))
                 ELSE NoLearn
            /\ IF Len(Prefix(ret.l, Top.n)) # Top.n
                 THEN Raise(InsufficientSolutions(Top.n, Len(ret.l)))
                 ELSE Return(RetList(Prefix(ret.l, Top.n)))
  /\ UNCHANGED <<Config, out, call, pre, checks>>

exactly_n_results ==
  /\ In("exactly_n", "results")
  /\ IF Len(ret.l) = 0
       THEN Raise(NoSolutions) /\ NoLearn
       ELSE IF Len(Prefix(ret.l, Top.n)) # Top.n
         THEN Raise(InsufficientSolutions(Top.n, Len(ret.l))) /\ NoLearn
         ELSE /\ Return(RetList(Prefix(ret.l, Top.n)))
              /\ IF is_symbolic /\ Top.n = 1 /\ Len(ret.l) = 1 /\ state.exists
                   THEN Learn(Eq(ret.l[1]))
                   ELSE NoLearn
  /\ UNCHANGED <<Config, out, call, pre, checks>>

CallExactlyN ==
  \E n \in 1..MaxN, ec \in ExtraChoices :
    Begin([NoCall EXCEPT !.op = "exactly_n", !.n = n, !.ec = ec],
          [Frame("exactly_n") EXCEPT !.n = n, !.ec = ec])

\* ------------------------------------------------------------- is_solution
\* as is_solution_start, but the constant is compared without satisfiable()
is_solution_start_skips_satisfiable ==
  /\ In("is_solution", "start")
  /\ IF ~is_symbolic
       THEN /\ Return(RetBool(concretize_constant = Top.v))
            /\ solver' = solver
            /\ checks' = checks
       ELSE IF Strict
         THEN Raise(StrictModeViolation) /\ solver' = solver /\ checks' = checks
         ELSE /\ solver' = Add(Push(solver), {Eq(Top.v)})
              /\ checks' = checks + 1
              /\ Goto([Top EXCEPT !.pc = "pop", !.s = Check(solver')])
  /\ UNCHANGED <<Config, out, call, pre, learned>>

is_solution_start ==
  /\ In("is_solution", "start")
  /\ IF ~is_symbolic
       THEN /\ Return(RetBool(Check(solver) /\ concretize_constant = Top.v))
            /\ solver' = solver
            /\ checks' = checks + 1
       ELSE IF Strict
         THEN Raise(StrictModeViolation) /\ solver' = solver /\ checks' = checks
         ELSE /\ solver' = Add(Push(solver), {Eq(Top.v)})
              /\ checks' = checks + 1
              /\ Goto([Top EXCEPT !.pc = "pop", !.s = Check(solver')])
  /\ UNCHANGED <<Config, out, call, pre, learned>>

is_solution_pop ==
  /\ In("is_solution", "pop")
  /\ solver' = Pop(solver)
  /\ Return(RetBool(Top.s))
  /\ UNCHANGED <<Config, out, call, pre, checks, learned>>

CallIsSolution ==
  \E v \in LoArgs \cup HiArgs :
    Begin([NoCall EXCEPT !.op = "is_solution", !.sol = v],
          [Frame("is_solution") EXCEPT !.v = v])

\* ----------------------------------------------------------------------- min
Max2(a, b) == IF a >= b THEN a ELSE b
Min2(a, b) == IF a <= b THEN a ELSE b
Middle(f) == (f.lo + f.hi) \div 2

\* clamp lo and hi, require satisfiability, then try the unique fast path
min_start ==
  /\ In("min", "start")
  /\ checks' = checks + 1
  /\ IF ~Check(solver)
       THEN Raise(NoSolutions)
       ELSE Invoke("unique",
                   [Frame("is_unique") EXCEPT !.ec = NoExtra])
  /\ UNCHANGED <<Config, solver, out, call, pre, learned>>

min_unique ==
  /\ In("min", "unique")
  /\ IF ret.b
       THEN Invoke("any", Frame("any"))
       ELSE Goto([Top EXCEPT !.pc = "while", !.numpop = 0])
  /\ UNCHANGED <<Config, solver, out, call, pre, checks, learned>>

min_any ==
  /\ In("min", "any")
  /\ Return(RetInt(ret.v))
  /\ UNCHANGED <<Config, solver, out, call, pre, checks, learned>>

\* as min_while, but an unsatisfiable lower half moves lo past middle
min_while_skips_middle ==
  /\ In("min", "while")
  /\ IF Top.hi - Top.lo > 1
       THEN /\ solver' = Add(Push(solver), {UGE(Top.lo), ULT(Middle(Top))})
            /\ checks' = checks + 1
            /\ IF Check(solver')
                 THEN Goto([Top EXCEPT !.numpop = @ + 1, !.middle = Middle(Top), !.hi = Middle(Top) - 1])
                 ELSE Goto([Top EXCEPT !.numpop = @ + 1, !.middle = Middle(Top), !.lo = Middle(Top) + 1,
                                       !.pc = "unsat"])
       ELSE /\ solver' = solver
            /\ checks' = checks
            /\ Goto([Top EXCEPT !.pc = "pops", !.i = 0])
  /\ UNCHANGED <<Config, out, call, pre, learned>>

\* one iteration of while hi - lo > 1: push, assert the half range, check
min_while ==
  /\ In("min", "while")
  /\ IF Top.hi - Top.lo > 1
       THEN /\ solver' = Add(Push(solver), {UGE(Top.lo), ULT(Middle(Top))})
            /\ checks' = checks + 1
            /\ IF Check(solver')
                 THEN Goto([Top EXCEPT !.numpop = @ + 1, !.middle = Middle(Top), !.hi = Middle(Top) - 1])
                 ELSE Goto([Top EXCEPT !.numpop = @ + 1, !.middle = Middle(Top), !.lo = Middle(Top),
                                       !.pc = "unsat"])
       ELSE /\ solver' = solver
            /\ checks' = checks
            /\ Goto([Top EXCEPT !.pc = "pops", !.i = 0])
  /\ UNCHANGED <<Config, out, call, pre, learned>>

\* as min_unsat, but the popped scope stays counted in numpop
min_unsat_keeps_numpop ==
  /\ In("min", "unsat")
  /\ solver' = Pop(solver)
  /\ Goto([Top EXCEPT !.pc = "while"])
  /\ UNCHANGED <<Config, out, call, pre, checks, learned>>

min_unsat ==
  /\ In("min", "unsat")
  /\ solver' = Pop(solver)
  /\ Goto([Top EXCEPT !.pc = "while", !.numpop = @ - 1])
  /\ UNCHANGED <<Config, out, call, pre, checks, learned>>

min_pops ==
  /\ In("min", "pops")
  /\ IF Top.i < Top.numpop
       THEN /\ solver' = Pop(solver)
            /\ Goto([Top EXCEPT !.i = @ + 1])
       ELSE /\ solver' = solver
            /\ IF Top.hi = Top.lo
                 THEN Return(RetInt(Top.lo))
                 ELSE Invoke("is_solution", [Frame("is_solution") EXCEPT !.v = Top.lo])
  /\ UNCHANGED <<Config, out, call, pre, checks, learned>>

min_is_solution ==
  /\ In("min", "is_solution")
  /\ Return(RetInt(IF ret.b THEN Top.lo ELSE Top.hi))
  /\ UNCHANGED <<Config, solver, out, call, pre, checks, learned>>

\* the frame of min(lo, hi) with lo and hi clamped as its first two lines do
min_frame(lo, hi) ==
  [Frame("min") EXCEPT !.lo = Max2(lo, min_for_size), !.hi = Min2(hi, max_for_size)]

CallMin ==
  \E lo \in LoArgs, hi \in HiArgs :
    Begin([NoCall EXCEPT !.op = "min", !.lo = lo, !.hi = hi], min_frame(lo, hi))


\* clamp lo and hi, require satisfiability, then try the unique fast path
max_start ==
  /\ In("max", "start")
  /\ checks' = checks + 1
  /\ IF ~Check(solver)
       THEN Raise(NoSolutions)
       ELSE Invoke("unique",
                   [Frame("is_unique") EXCEPT !.ec = NoExtra])
  /\ UNCHANGED <<Config, solver, out, call, pre, learned>>

max_unique ==
  /\ In("max", "unique")
  /\ IF ret.b
       THEN Invoke("any", Frame("any"))
       ELSE Goto([Top EXCEPT !.pc = "while", !.numpop = 0])
  /\ UNCHANGED <<Config, solver, out, call, pre, checks, learned>>

max_any ==
  /\ In("max", "any")
  /\ Return(RetInt(ret.v))
  /\ UNCHANGED <<Config, solver, out, call, pre, checks, learned>>

\* as max_while, but an unsatisfiable upper half moves hi below middle
max_while_skips_middle ==
  /\ In("max", "while")
  /\ IF Top.hi - Top.lo > 1
       THEN /\ solver' = Add(Push(solver), {UGT(Middle(Top)), ULE(Top.hi)})
            /\ checks' = checks + 1
            /\ IF Check(solver')
                 THEN Goto([Top EXCEPT !.numpop = @ + 1, !.middle = Middle(Top), !.lo = Middle(Top) + 1])
                 ELSE Goto([Top EXCEPT !.numpop = @ + 1, !.middle = Middle(Top), !.hi = Middle(Top) - 1,
                                       !.pc = "unsat"])
       ELSE /\ solver' = solver
            /\ checks' = checks
            /\ Goto([Top EXCEPT !.pc = "pops", !.i = 0])
  /\ UNCHANGED <<Config, out, call, pre, learned>>

\* one iteration of while hi - lo > 1: push, assert the half range, check
max_while ==
  /\ In("max", "while")
  /\ IF Top.hi - Top.lo > 1
       THEN /\ solver' = Add(Push(solver), {UGT(Middle(Top)), ULE(Top.hi)})
            /\ checks' = checks + 1
            /\ IF Check(solver')
                 THEN Goto([Top EXCEPT !.numpop = @ + 1, !.middle = Middle(Top), !.lo = Middle(Top) + 1])
                 ELSE Goto([Top EXCEPT !.numpop = @ + 1, !.middle = Middle(Top), !.hi = Middle(Top),
                                       !.pc = "unsat"])
       ELSE /\ solver' = solver
            /\ checks' = checks
            /\ Goto([Top EXCEPT !.pc = "pops", !.i = 0])
  /\ UNCHANGED <<Config, out, call, pre, learned>>

\* as max_unsat, but the popped scope stays counted in numpop
max_unsat_keeps_numpop ==
  /\ In("max", "unsat")
  /\ solver' = Pop(solver)
  /\ Goto([Top EXCEPT !.pc = "while"])
  /\ UNCHANGED <<Config, out, call, pre, checks, learned>>

max_unsat ==
  /\ In("max", "unsat")
  /\ solver' = Pop(solver)
  /\ Goto([Top EXCEPT !.pc = "while", !.numpop = @ - 1])
  /\ UNCHANGED <<Config, out, call, pre, checks, learned>>

max_pops ==
  /\ In("max", "pops")
  /\ IF Top.i < Top.numpop
       THEN /\ solver' = Pop(solver)
            /\ Goto([Top EXCEPT !.i = @ + 1])
       ELSE /\ solver' = solver
            /\ IF Top.hi = Top.lo
                 THEN Return(RetInt(Top.hi))
                 ELSE Invoke("is_solution", [Frame("is_solution") EXCEPT !.v = Top.hi])
  /\ UNCHANGED <<Config, out, call, pre, checks, learned>>

max_is_solution ==
  /\ In("max", "is_solution")
  /\ Return(RetInt(IF ret.b THEN Top.hi ELSE Top.lo))
  /\ UNCHANGED <<Config, solver, out, call, pre, checks, learned>>

\* the frame of max(lo, hi) with lo and hi clamped as its first two lines do
max_frame(lo, hi) ==
  [Frame("max") EXCEPT !.lo = Max2(lo, min_for_size), !.hi = Min2(hi, max_for_size)]

CallMax ==
  \E lo \in LoArgs, hi \in HiArgs :
    Begin([NoCall EXCEPT !.op = "max", !.lo = lo, !.hi = hi], max_frame(lo, hi))

\* -------------------------------------------------------------------- iter
iter_start ==
  /\ In("iter", "start")
  /\ Invoke("min", min_frame(DefaultLo, DefaultHi))
  /\ UNCHANGED <<Config, solver, out, call, pre, checks, learned>>

iter_min ==
  /\ In("iter", "min")
  /\ cs' = Append(SetTop([Top EXCEPT !.pc = "max",
                                     !.lo = Max2(Max2(Top.lo, min_for_size), ret.v)]),
                  max_frame(DefaultLo, DefaultHi))
  /\ ret' = ret
  /\ UNCHANGED <<Config, solver, out, call, pre, checks, learned>>

iter_max ==
  /\ In("iter", "max")
  /\ Goto([Top EXCEPT !.pc = "while",
                      !.hi = Min2(Min2(Top.hi, max_for_size), ret.v),
                      !.v = Top.lo])
  /\ UNCHANGED <<Config, solver, out, call, pre, checks, learned>>

\* Top.v is current
iter_while ==
  /\ In("iter", "while")
  /\ IF Top.v <= Top.hi
       THEN Invoke("yield", min_frame(Top.v, Top.hi))
       ELSE Return(RetStop)
  /\ UNCHANGED <<Config, solver, out, call, pre, checks, learned>>

iter_yield ==
  /\ In("iter", "yield")
  /\ out' = Append(out, ret.v)
  /\ Goto([Top EXCEPT !.pc = "while", !.v = ret.v + 1])
  /\ UNCHANGED <<Config, solver, call, pre, checks, learned>>

CallIter ==
  \E lo \in LoArgs, hi \in HiArgs :
    lo <= hi /\ Begin([NoCall EXCEPT !.op = "iter", !.lo = lo, !.hi = hi],
          [Frame("iter") EXCEPT !.lo = lo, !.hi = hi])

Next ==
  \/ CallAnyN \/ CallIsUnique \/ CallSatisfiable \/ CallAny \/ CallExactlyN
  \/ CallIsSolution \/ CallMin \/ CallMax \/ CallIter
  \/ any_n_start \/ any_n_loop \/ any_n_pop
  \/ is_unique_start \/ is_unique_answers
  \/ satisfiable
  \/ any_start \/ any_got
  \/ exactly_n_start \/ exactly_n_results
  \/ is_solution_start \/ is_solution_pop
  \/ min_start \/ min_unique \/ min_any \/ min_while
  \/ min_unsat \/ min_pops \/ min_is_solution
  \/ max_start \/ max_unique \/ max_any \/ max_while
  \/ max_unsat \/ max_pops \/ max_is_solution
  \/ iter_start \/ iter_min \/ iter_max \/ iter_while \/ iter_yield
  \/ Finish

Spec == Init /\ [][Next]_vars

\* ------------------------------------------------ two threads, one solver
\* Two SimValue instances of one state wrap the same expression and hold the
\* same state.solver (self.solver = state.solver).  Nothing in SimValue
\* takes a lock, so the interpreter may switch threads between any two
\* steps: the running thread is parked and the parked one runs on.
Switch ==
  /\ parked' = [cs |-> cs, ret |-> ret, out |-> out, call |-> call,
                pre |-> IF Idle THEN <<>> ELSE pre,
                checks |-> checks, learned |-> learned]
  /\ cs' = parked.cs
  /\ ret' = parked.ret
  /\ out' = parked.out
  /\ call' = parked.call
  /\ pre' = IF parked.cs = <<>> /\ parked.call.op = "none" THEN solver ELSE parked.pre
  /\ checks' = parked.checks
  /\ learned' = parked.learned
  /\ UNCHANGED <<expr, state, solver>>

InitShared == Init /\ is_symbolic /\ state.exists /\ ~state.strict

\* both threads call any_n, without extra constraints
NextShared ==
  \/ (CallAnyN /\ ~call'.ec.given)
  \/ any_n_start \/ any_n_loop \/ any_n_pop
  \/ Finish
  \/ Switch

SpecShared == InitShared /\ [][NextShared]_vars

\* ================================================================== claims
Range(q) == {q[i] : i \in DOMAIN q}
Distinct(q) == \A i, j \in DOMAIN q : i # j => q[i] # q[j]
Increasing(q) == \A i, j \in DOMAIN q : i < j => q[i] < q[j]
Least(S) == CHOOSE x \in S : \A y \in S : x <= y
Greatest(S) == CHOOSE x \in S : \A y \in S : x >= y
NonStrictSymbolic == is_symbolic /\ ~Strict
\* the values of the expression that satisfied the solver when the outermost
\* call started, together with that call's extra constraints
SolPre == Solutions(pre)
SolExtra == SolPre \cap Conj(call.ec.cons)
\* the satisfying values inside the clamped range of the outermost call
ClampLo == Max2(call.lo, min_for_size)
ClampHi == Min2(call.hi, max_for_size)
InRange == {x \in SolPre : ClampLo <= x /\ x <= ClampHi}

\* C1: scope balance.  While a call runs the solver's depth is never below
\* the depth at which that call, or any call it is nested in, started; when
\* a call returns or raises, the depth is the one it started at; and where
\* iter yields, the depth is iter's entry depth.
C1_DepthNotBelowEntry == \A i \in DOMAIN cs : Depth(solver) >= cs[i].entry
C1_IterYieldAtEntryDepth == In("iter", "yield") => Depth(solver) = Top.entry
C1_ExitAtEntryDepth ==
  \A i \in DOMAIN cs : i > Len(cs') => cs[i].entry = Depth(solver')
C1_ScopeBalance ==
  /\ [](C1_DepthNotBelowEntry /\ C1_IterYieldAtEntryDepth)
  /\ [][C1_ExitAtEntryDepth]_vars
C1_Witness ==
  /\ In("iter", "yield")
  /\ Len(out) >= 1
  /\ checks >= 6
  /\ Top.entry >= 1
  /\ Depth(solver) = Top.entry

\* C2: exactly_n and any learn expr == witness only for n == 1 on a symbolic
\* expression with a single witness and no extra constraints; with extra
\* constraints they leave the permanent constraints alone.
C2_LearnsOnlyWithoutExtra ==
  call.op \in {"exactly_n", "any"} =>
    /\ learned # <<>> =>
         /\ call.op = "exactly_n" => call.n = 1
         /\ is_symbolic
         /\ Cardinality(SolExtra) = 1
         /\ ~call.ec.given
    /\ call.ec.given => learned = <<>> /\ (Done => solver = pre)

\* C3: no constraint leak.  When any_n, exactly_n, any, is_unique, min, max,
\* is_solution or satisfiable has returned or raised, the solver is the one
\* the call found plus at most one learned equality expr == w, and no
\* blocking constraint expr != v and no extra constraint of the call confines
\* the solver any more than it was confined before the call.  (The range
\* bounds of min and max are covered by the first part: their searches learn
\* nothing.)
C3_Ops == {"any_n", "exactly_n", "any", "is_unique", "min", "max", "is_solution",
           "satisfiable"}
C3_OnlyLearnedEquality ==
  /\ Cardinality(Range(learned)) <= 1
  /\ \A c \in Range(learned) : \E w \in Values : c = Eq(w)
  /\ solver = IF learned = <<>> THEN pre ELSE add_constraints(pre, learned[1])
Visible(c) == Solutions(solver) \subseteq c /\ ~(SolPre \subseteq c)
C3_NoLeak ==
  (Done /\ call.op \in C3_Ops) =>
    /\ C3_OnlyLearnedEquality
    /\ \A v \in Range(ret.l) : ~Visible(Ne(v))
    /\ \A c \in call.ec.cons : ~Visible(c)

\* C4: for a symbolic expression under non-strict policy, any_n(n, extra)
\* returns pairwise distinct values, min(n, |S|) of them, all in S, the set
\* of values satisfying the current and the extra constraints.
C4_AnyN ==
  (Done /\ call.op = "any_n" /\ NonStrictSymbolic) =>
    /\ ret.kind = "list"
    /\ Distinct(ret.l)
    /\ Len(ret.l) = Min2(call.n, Cardinality(SolExtra))
    /\ Range(ret.l) \subseteq SolExtra
C4_Witness ==
  /\ Done /\ call.op = "any_n" /\ NonStrictSymbolic
  /\ call.ec.given
  /\ Cardinality(SolExtra) > 2
  /\ SolExtra # SolPre
  /\ Len(ret.l) = 2

\* C5: for a symbolic expression (non-strict policy) with satisfiable
\* constraints and a satisfying value in the clamped range [lo, hi], min(lo,
\* hi) returns the smallest satisfying value of that range.
C5_Min ==
  (Done /\ call.op = "min" /\ NonStrictSymbolic /\ call.lo <= call.hi /\ InRange # {}) =>
    ret.kind = "int" /\ ret.v = Least(InRange)
C5_Witness ==
  /\ Done /\ call.op = "min" /\ NonStrictSymbolic
  /\ Cardinality(SolPre) >= 2
  /\ ret.kind = "int"
  /\ InRange # {}
  /\ ret.v = Least(InRange)
  /\ ClampLo < ret.v /\ ret.v < ClampHi
  /\ SolPre # InRange

\* C6: under the same conditions max(lo, hi) returns the largest satisfying
\* value of the clamped range.
C6_Max ==
  (Done /\ call.op = "max" /\ NonStrictSymbolic /\ call.lo <= call.hi /\ InRange # {}) =>
    ret.kind = "int" /\ ret.v = Greatest(InRange)
C6_Witness ==
  /\ Done /\ call.op = "max" /\ NonStrictSymbolic
  /\ Cardinality(SolPre) >= 2
  /\ ret.kind = "int"
  /\ InRange # {}
  /\ ret.v = Greatest(InRange)
  /\ ClampLo < ret.v /\ ret.v < ClampHi
  /\ SolPre # InRange

\* C7: iter(lo, hi) yields exactly the satisfying values in [lo, hi], each
\* once, in strictly increasing order, and ends.
C7_Iter ==
  (call.op = "iter" /\ NonStrictSymbolic) =>
    /\ Range(out) \subseteq InRange
    /\ Increasing(out)
    /\ (Done /\ ret.kind = "stop") => Range(out) = InRange

\* C8: exactly_n(n) with k satisfying values fails with NoSolutions when
\* k == 0 and with InsufficientSolutions(n, k) when 0 < k < n; when k >= n it
\* returns n pairwise distinct satisfying values.
C8_ExactlyN ==
  (Done /\ call.op = "exactly_n" /\ NonStrictSymbolic) =>
    LET k == Cardinality(SolExtra) IN
      /\ k = 0 => ret = NoSolutions
      /\ (0 < k /\ k < call.n) => ret = InsufficientSolutions(call.n, k)
      /\ k >= call.n =>
           /\ ret.kind = "list"
           /\ Len(ret.l) = call.n
           /\ Distinct(ret.l)
           /\ Range(ret.l) \subseteq SolExtra
C8_Witness ==
  /\ Done /\ call.op = "exactly_n" /\ NonStrictSymbolic
  /\ ~call.ec.given
  /\ Cardinality(SolPre) = 1
  /\ ret = InsufficientSolutions(2, 1)

\* C9: is_unique(extra) on a symbolic expression is true exactly when one
\* single value satisfies the current and the extra constraints; it learns
\* expr == witness exactly when it is true, an owning state exists and no
\* extra constraints were given, and learns nothing otherwise.
C9_IsUnique ==
  (Done /\ call.op = "is_unique" /\ NonStrictSymbolic) =>
    /\ ret.kind = "bool"
    /\ ret.b <=> Cardinality(SolExtra) = 1
    /\ IF ret.b /\ state.exists /\ ~call.ec.given
         THEN /\ learned = <<Eq(Least(SolExtra))>>
              /\ solver = add_constraints(pre, Eq(Least(SolExtra)))
         ELSE learned = <<>> /\ solver = pre
C9_Witness ==
  /\ Done /\ call.op = "is_unique" /\ NonStrictSymbolic
  /\ ret.b
  /\ learned # <<>>

\* C10: under the strict-concrete policy a symbolic expression makes any,
\* any_n, exactly_n, is_unique and is_solution (and min and max on
\* satisfiable constraints) fail with StrictModeViolation, and the call
\* neither pushes, nor adds on the solver, nor adds on the owning state.
C10_FailingOps == {"any", "any_n", "exactly_n", "is_unique", "is_solution"}
C10_Strict ==
  (Strict /\ is_symbolic /\ call.op # "none") =>
    /\ solver = pre
    /\ learned = <<>>
    /\ (Done /\ call.op \in C10_FailingOps) => ret = StrictModeViolation
    /\ (Done /\ call.op \in {"min", "max"} /\ Check(pre)) => ret = StrictModeViolation
C10_Witness ==
  /\ Done /\ Strict /\ is_symbolic
  /\ call.op = "min"
  /\ Check(pre)
  /\ ret = StrictModeViolation
  /\ solver = pre

\* C11: a constant expression needs no solver.  Whatever the solver holds,
\* any_n(k) returns exactly [c] and is_unique() is true, both without a
\* check, a push or an add; is_solution(c) is true and is_solution(d) is
\* false for every d other than c.
C11_NoSolverCall ==
  (~is_symbolic /\ call.op \in {"any_n", "is_unique"}) =>
    checks = 0 /\ solver = pre /\ learned = <<>>
C11_Constant ==
  /\ C11_NoSolverCall
  /\ (Done /\ ~is_symbolic) =>
       /\ call.op = "any_n" => ret = RetList(<<concretize_constant>>)
       /\ call.op = "is_unique" => ret = RetBool(TRUE)
       /\ call.op = "is_solution" => ret = RetBool(call.sol = concretize_constant)
\* C11 as the code has it: is_solution(c) on a constant is satisfiable() and
\* c == solution, so it is true when the solver's constraints are
\* satisfiable and false when they are not; the rest is as stated.
C11_ConstantWhenSatisfiable ==
  /\ C11_NoSolverCall
  /\ (Done /\ ~is_symbolic) =>
       /\ call.op = "any_n" => ret = RetList(<<concretize_constant>>)
       /\ call.op = "is_unique" => ret = RetBool(TRUE)
       /\ call.op = "is_solution" =>
            ret = RetBool(Check(pre) /\ call.sol = concretize_constant)
C11_Witness ==
  /\ Done /\ ~is_symbolic
  /\ call.op = "is_solution"
  /\ call.sol = concretize_constant
  /\ ~Check(pre)
  /\ ret = RetBool(FALSE)
  /\ checks = 1

\* C12: failure is all-or-nothing.  Whenever any, exactly_n, any_n,
\* is_unique, min, max or is_solution raises, the solver holds exactly what
\* it held before the call, nothing was handed to the owning state, and the
\* call returned no witness.
C12_Ops == {"any", "exactly_n", "any_n", "is_unique", "min", "max", "is_solution"}
C12_FailureAllOrNothing ==
  (Done /\ call.op \in C12_Ops /\ ret.kind = "exc") =>
    /\ solver = pre
    /\ learned = <<>>
    /\ ret.l = <<>> /\ out = <<>>
C12_Witness ==
  /\ Done /\ call.op = "exactly_n" /\ ret.kind = "exc"
  /\ state.exists /\ ~state.strict /\ is_symbolic
  /\ ~call.ec.given
  /\ call.n = 2
  /\ Cardinality(SolPre) = 1
  /\ ret.e = "InsufficientSolutions"
  /\ checks = 2
  /\ solver = pre

\* C13: when exactly one value w satisfies the (satisfiable) constraints of a
\* symbolic expression, is_unique() is true and any(), min() and max()
\* return w; the constraints still admit exactly w afterwards, so the same
\* holds for these calls repeated in any order once expr == w was learned.
C13_Unique ==
  (Done /\ NonStrictSymbolic /\ Cardinality(SolPre) = 1) =>
    LET w == Least(SolPre) IN
      /\ (call.op = "is_unique" /\ ~call.ec.given) => ret = RetBool(TRUE)
      /\ (call.op = "any" /\ ~call.ec.given) => ret = RetInt(w)
      /\ (call.op \in {"min", "max"} /\ call.lo = DefaultLo /\ call.hi = DefaultHi) =>
           ret = RetInt(w)
      /\ Solutions(solver) = {w}
C13_Witness ==
  /\ Done /\ NonStrictSymbolic /\ state.exists
  /\ Cardinality(SolPre) = 1
  /\ call.op = "max" /\ call.lo = DefaultLo /\ call.hi = DefaultHi
  /\ ret = RetInt(Least(SolPre))
  /\ learned = <<Eq(Least(SolPre)), Eq(Least(SolPre))>>
  /\ Least(SolPre) \notin {min_for_size, max_for_size}

\* C14: bounded solver work.  any_n(n) issues at most n checks and stops at
\* its first unsat one (one check more than it has witnesses, capped at n);
\* is_unique issues at most 2 checks and exactly_n(n) at most n + 1.  In
\* particular any_n(3) on an expression with two satisfying values ends its
\* loop with exactly those two values, after 3 checks and without an error.
C14_CheckBudget ==
  /\ call.op = "any_n" => checks <= call.n
  /\ call.op = "is_unique" => checks <= 2
  /\ call.op = "exactly_n" => checks <= call.n + 1
  /\ \A k \in DOMAIN cs : cs[k].fn = "any_n" => cs[k].i <= cs[k].n
C14_StopsAtFirstUnsat ==
  (Done /\ call.op = "any_n" /\ NonStrictSymbolic) =>
    checks = Min2(call.n, Cardinality(SolExtra) + 1)
C14_AnyThreeOfTwo ==
  (In("any_n", "pop") /\ Top.n = 3 /\ Cardinality(SolExtra) = 2) =>
    /\ Len(Top.results) = 2
    /\ Range(Top.results) = SolExtra
    /\ ret.kind # "exc"
    /\ checks <= 3
C14_BoundedWork == C14_CheckBudget /\ C14_StopsAtFirstUnsat /\ C14_AnyThreeOfTwo
C14_Witness ==
  /\ In("any_n", "pop") /\ Top.n = 3
  /\ call.op = "exactly_n"
  /\ Cardinality(SolExtra) = 2
  /\ Range(Top.results) = SolExtra
  /\ checks = 3

\* C15: learning is sound.  Every equality a call hands to the owning state
\* is implied by the permanent constraints the call found, so when the call
\* is over the permanent constraints have the solutions they had before.
C15_LearningSound ==
  /\ \A c \in Range(learned) : SolPre \subseteq c
  /\ (Done /\ call.op \in C3_Ops) => Solutions(solver) = SolPre

\* C16: every value min(lo, hi) or max(lo, hi) returns satisfies the
\* constraints and lies in the clamped range [lo, hi]; when the constraints
\* are satisfiable but no satisfying value lies in the range, the call
\* raises NoSolutions.
C16_MinMaxInRange ==
  (Done /\ call.op \in {"min", "max"} /\ NonStrictSymbolic) =>
    /\ ret.kind = "int" => ret.v \in InRange
    /\ (Check(pre) /\ InRange = {}) => ret = NoSolutions

\* C17: every add a call issues on the solver lands in a scope that this
\* call pushed (the frames up to the depth at which the call started are
\* left as they were), and every permanent add of the owning state is
\* issued while the solver is at the depth at which the running calls
\* started, no scope of theirs being open; so, when the call is over, what
\* was learned is still in force.
Below(s, d) == SubSeq(s, 1, d + 1)
C17_Step ==
  solver' # solver =>
    IF learned' # learned
      THEN /\ \A k \in DOMAIN cs : Depth(solver) = cs[k].entry
           /\ Depth(solver') = Depth(solver)
           /\ solver' = add_constraints(solver, learned'[Len(learned')])
      ELSE Below(solver', Top.entry) = Below(solver, Top.entry)
C17_LearnedSurvives ==
  Done => \A c \in Range(learned) : Solutions(solver) \subseteq c
C17_ScopedAdds == [][C17_Step]_vars /\ []C17_LearnedSurvives
C17_Witness ==
  /\ Done /\ call.op = "any" /\ NonStrictSymbolic
  /\ call.ec.given
  /\ checks = 2
  /\ Len(learned) = 1
  /\ solver # pre
  /\ Depth(solver) = Depth(pre)
  /\ Solutions(solver) \subseteq learned[1]

\* C18: the binary searches of min and max end for every pair of bounds.  An
\* iteration of the loop makes hi - lo strictly smaller and keeps lo <= hi;
\* the scopes the search holds open are numpop many; and the loop is left,
\* before the numpop scopes are popped, with hi - lo equal to 0 or 1.
Searching(f) == f.fn \in {"min", "max"} /\ f.pc \in {"while", "unsat", "pops"}
C18_Iteration ==
  (cs # <<>> /\ Searching(Top) /\ Len(cs') = Len(cs)) =>
    LET g == cs'[Len(cs)] IN
      /\ (Top.pc = "while" /\ Top.hi - Top.lo > 1) => g.hi - g.lo < Top.hi - Top.lo
      /\ Top.lo <= Top.hi => g.lo <= g.hi
C18_OpenScopes ==
  (cs # <<>> /\ Searching(Top)) =>
    Depth(solver) - Top.entry = Top.numpop - (IF Top.pc = "pops" THEN Top.i ELSE 0)
C18_ExitZeroOrOne ==
  (cs # <<>> /\ Searching(Top) /\ Top.pc = "pops") => Top.hi - Top.lo \in {0, 1}
C18_BinarySearch ==
  /\ [][C18_Iteration]_vars
  /\ [](C18_OpenScopes /\ C18_ExitZeroOrOne)
\* C18 as the code has it: the loop is left with hi - lo at most 1, which is
\* 0 or 1 whenever lo <= hi held at loop entry; bounds given with lo > hi
\* skip the loop and stay as they are, their difference negative.
C18_ExitAtMostOne ==
  (cs # <<>> /\ Searching(Top)) =>
    /\ Top.pc = "pops" => Top.hi - Top.lo <= 1
    /\ Top.hi < Top.lo =>
         /\ Top.numpop = 0
         /\ call.op \in {"min", "max"} => Top.lo = ClampLo /\ Top.hi = ClampHi
C18_BinarySearchFromOrderedBounds ==
  /\ [][C18_Iteration]_vars
  /\ [](C18_OpenScopes /\ C18_ExitAtMostOne)
C18_Witness ==
  /\ In("min", "pops") /\ call.op = "min"
  /\ Top.hi < Top.lo
  /\ Cardinality(SolPre) >= 2
  /\ Top.numpop = 0

\* C19: two threads whose SimValue instances share one state's solver.  Their
\* push-operate-pop transactions exclude each other: the two never hold a
\* scope at the same time, a call never starts at a depth that holds a scope
\* of the other thread, and any_n returns what it returns when run alone on
\* the permanent constraints.
ScopesHeld(f) ==
  IF f.fn = "any_n" /\ f.pc \in {"loop", "pop"} THEN 1
  ELSE IF f.fn = "is_solution" /\ f.pc = "pop" THEN 1
  ELSE IF Searching(f) THEN f.numpop - (IF f.pc = "pops" THEN f.i ELSE 0)
  ELSE 0
InTransaction(stack) == \E k \in DOMAIN stack : ScopesHeld(stack[k]) > 0
BaseDepth == IF state.exists THEN MaxOuter ELSE 0
Permanent == Solutions(Below(solver, BaseDepth))
C19_MutualExclusion ==
  /\ ~(InTransaction(cs) /\ InTransaction(parked.cs))
  /\ \A k \in DOMAIN cs : cs[k].entry = BaseDepth
  /\ (Done /\ call.op = "any_n") =>
       /\ ret.kind = "list"
       /\ Range(ret.l) \subseteq Permanent \cap Conj(call.ec.cons)
       /\ Len(ret.l) = Min2(call.n, Cardinality(Permanent \cap Conj(call.ec.cons)))
====
